---- MODULE Spec2Model ----
(***************************************************************************)
(* Model of the redis-clone connection handler, its per-connection         *)
(* transaction (MULTI / EXEC / DISCARD), the command parser and the shared *)
(* store.  A string is a sequence of one-character strings, so that        *)
(* to_lowercase and format! are computed rather than assumed.              *)
(***************************************************************************)
EXTENDS Integers, Sequences, FiniteSets, TLC

(* ------------------------------ bounds --------------------------------- *)

\* frames all connections together may decode before the model stops
\* feeding them
MaxTotal == 5

\* frames a connection other than "A" may decode
MaxOther == 1

\* the connection tasks spawned by Server::run
Conns == {"A", "B"}

\* frames connection c may decode
MaxReq(c) == IF c = "A" THEN MaxTotal ELSE MaxOther

(* ------------------------------ strings -------------------------------- *)

UpperLetters == <<"A", "B", "C", "D", "E", "F", "G", "H", "I", "J", "K", "L", "M",
                  "N", "O", "P", "Q", "R", "S", "T", "U", "V", "W", "X", "Y", "Z">>

LowerLetters == <<"a", "b", "c", "d", "e", "f", "g", "h", "i", "j", "k", "l", "m",
                  "n", "o", "p", "q", "r", "s", "t", "u", "v", "w", "x", "y", "z">>

\* char::to_lowercase on the ASCII range
lower_char(ch) ==
  IF \E i \in 1..26 : UpperLetters[i] = ch
    THEN LowerLetters[CHOOSE i \in 1..26 : UpperLetters[i] = ch]
    ELSE ch

\* the verb compared as it was sent
mut_to_lowercase(s) == s

\* str::to_lowercase
to_lowercase(s) == [i \in 1..Len(s) |-> lower_char(s[i])]

\* "ping"
s_ping == <<"p", "i", "n", "g">>

\* "set"
s_set == <<"s", "e", "t">>

\* "get"
s_get == <<"g", "e", "t">>

\* "lpush"
s_lpush == <<"l", "p", "u", "s", "h">>

\* "rpush"
s_rpush == <<"r", "p", "u", "s", "h">>

\* "lrange"
s_lrange == <<"l", "r", "a", "n", "g", "e">>

\* "multi"
s_multi == <<"m", "u", "l", "t", "i">>

\* "exec"
s_exec == <<"e", "x", "e", "c">>

\* "discard"
s_discard == <<"d", "i", "s", "c", "a", "r", "d">>

\* "OK"
s_OK == <<"O", "K">>

\* "PONG"
s_PONG == <<"P", "O", "N", "G">>

\* "QUEUED"
s_QUEUED == <<"Q", "U", "E", "U", "E", "D">>

\* "EXEC without MULTI"
s_exec_without_multi == <<"E", "X", "E", "C", " ", "w", "i", "t", "h", "o", "u", "t", " ", "M", "U", "L", "T", "I">>

\* "DISCARD without MULTI"
s_discard_without_multi == <<"D", "I", "S", "C", "A", "R", "D", " ", "w", "i", "t", "h", "o", "u", "t", " ", "M", "U", "L", "T", "I">>

\* "MULTI calls cannot be nested"
s_cannot_nest == <<"M", "U", "L", "T", "I", " ", "c", "a", "l", "l", "s", " ", "c", "a", "n", "n", "o", "t", " ", "b", "e", " ", "n", "e", "s", "t", "e", "d">>

\* "Invalid command format"
s_invalid_format == <<"I", "n", "v", "a", "l", "i", "d", " ", "c", "o", "m", "m", "a", "n", "d", " ", "f", "o", "r", "m", "a", "t">>

\* "Unknown command: "
s_unknown_prefix == <<"U", "n", "k", "n", "o", "w", "n", " ", "c", "o", "m", "m", "a", "n", "d", ":", " ">>

\* "Invalid message"
s_invalid_message == <<"I", "n", "v", "a", "l", "i", "d", " ", "m", "e", "s", "s", "a", "g", "e">>

\* "WRONGTYPE"
s_wrongtype == <<"W", "R", "O", "N", "G", "T", "Y", "P", "E">>

(* ------------------------------ RespType ------------------------------- *)

SimpleString(s) == [type |-> "SimpleString", s |-> s]

BulkString(s) == [type |-> "BulkString", s |-> s]

SimpleError(s) == [type |-> "SimpleError", s |-> s]

NullBulkString == [type |-> "NullBulkString"]

Integer(n) == [type |-> "Integer", n |-> n]

Array(items) == [type |-> "Array", items |-> items]

(* ------------------------------ storage -------------------------------- *)

\* no StoredValue under the key
Absent == [kind |-> "Absent"]

\* StoredValue::Str
Str(v) == [kind |-> "Str", v |-> v]

\* StoredValue::List
List(items) == [kind |-> "List", items |-> items]

Reverse(s) == [i \in 1..Len(s) |-> s[Len(s) + 1 - i]]

\* get(key): the text, nothing for an absent key, a type error for a list
db_get(d, key) ==
  IF d[key].kind = "List" THEN [ok |-> FALSE, db |-> d]
  ELSE [ok |-> TRUE, db |-> d, found |-> d[key].kind = "Str",
        val |-> IF d[key].kind = "Str" THEN d[key].v ELSE <<>>]

\* set(key, text): unconditional overwrite
db_set(d, key, value) == [ok |-> TRUE, db |-> [d EXCEPT ![key] = Str(value)]]

\* lpush turning a scalar into a list instead of failing
mut_db_lpush(d, key, values) ==
  LET old == IF d[key].kind = "List" THEN d[key].items ELSE <<>>
      new == Reverse(values) \o old
  IN  [ok |-> TRUE, db |-> [d EXCEPT ![key] = List(new)], len |-> Len(new)]

\* lpush(key, values): each value inserted at the head, one at a time
db_lpush(d, key, values) ==
  IF d[key].kind = "Str" THEN [ok |-> FALSE, db |-> d]
  ELSE LET old == IF d[key].kind = "List" THEN d[key].items ELSE <<>>
           new == Reverse(values) \o old
       IN  [ok |-> TRUE, db |-> [d EXCEPT ![key] = List(new)], len |-> Len(new)]

\* rpush(key, values): each value appended at the tail, in order
db_rpush(d, key, values) ==
  IF d[key].kind = "Str" THEN [ok |-> FALSE, db |-> d]
  ELSE LET old == IF d[key].kind = "List" THEN d[key].items ELSE <<>>
           new == old \o values
       IN  [ok |-> TRUE, db |-> [d EXCEPT ![key] = List(new)], len |-> Len(new)]

\* lrange(key, start, stop): negative indices count from the tail, then clamp
db_lrange(d, key, start, stop) ==
  IF d[key].kind = "Str" THEN [ok |-> FALSE, db |-> d]
  ELSE LET l  == IF d[key].kind = "List" THEN d[key].items ELSE <<>>
           n  == Len(l)
           s0 == IF start < 0 THEN start + n ELSE start
           s1 == IF s0 < 0 THEN 0 ELSE s0
           e0 == IF stop < 0 THEN stop + n ELSE stop
           e1 == IF e0 > n - 1 THEN n - 1 ELSE e0
       IN  [ok |-> TRUE, db |-> d,
            items |-> IF s1 > e1 THEN <<>> ELSE SubSeq(l, s1 + 1, e1 + 1)]

(* ------------------------------ commands ------------------------------- *)

Ok(cmd) == [ok |-> TRUE, cmd |-> cmd]

Err(e) == [ok |-> FALSE, err |-> e]

\* CommandError::InvalidFormat
InvalidFormat == [kind |-> "InvalidFormat"]

\* CommandError::UnknownCommand(ErrUnknownCommand { cmd })
UnknownCommand(name) == [kind |-> "UnknownCommand", cmd |-> name]

\* CommandError::Other(msg)
Other(msg) == [kind |-> "Other", msg |-> msg]

\* impl Display for CommandError
CommandError_fmt(e) ==
  CASE e.kind = "InvalidFormat"  -> s_invalid_format
    [] e.kind = "UnknownCommand" -> s_unknown_prefix \o e.cmd
    [] e.kind = "Other"          -> e.msg

\* impl Display for TransactionError (its only variant is CannotNestMulti)
TransactionError_fmt == s_cannot_nest

AllBulk(args) == \A i \in 1..Len(args) : args[i].type = "BulkString"

Texts(args) == [i \in 1..Len(args) |-> args[i].s]

DigitChars == <<"0", "1", "2", "3", "4", "5", "6", "7", "8", "9">>

IsDigit(ch) == \E i \in 1..10 : DigitChars[i] = ch

DigitVal(ch) == (CHOOSE i \in 1..10 : DigitChars[i] = ch) - 1

RECURSIVE Magnitude(_)
Magnitude(s) ==
  IF s = <<>> THEN 0 ELSE 10 * Magnitude(SubSeq(s, 1, Len(s) - 1)) + DigitVal(s[Len(s)])

HasSign(s) == Len(s) > 0 /\ s[1] \in {"-", "+"}

Unsigned(s) == IF HasSign(s) THEN Tail(s) ELSE s

\* whether the text parses as a signed integer
IsInt(s) == Unsigned(s) # <<>> /\ \A i \in 1..Len(Unsigned(s)) : IsDigit(Unsigned(s)[i])

\* the signed integer the text denotes
ParseInt(s) ==
  IF Len(s) > 0 /\ s[1] = "-" THEN 0 - Magnitude(Unsigned(s)) ELSE Magnitude(Unsigned(s))

\* Ping::with_args: no argument, or the first argument as the message
Ping_with_args(args) ==
  IF Len(args) = 0 THEN Ok([name |-> "Ping", msg |-> <<>>])
  ELSE IF args[1].type = "BulkString" THEN Ok([name |-> "Ping", msg |-> <<args[1].s>>])
  ELSE Err(Other(s_invalid_message))

\* Set::with_args: exactly a key and a value
Set_with_args(args) ==
  IF Len(args) = 2 /\ AllBulk(args)
    THEN Ok([name |-> "Set", key |-> args[1].s, value |-> args[2].s])
    ELSE Err(InvalidFormat)

\* Get::with_args: exactly a key
Get_with_args(args) ==
  IF Len(args) = 1 /\ AllBulk(args)
    THEN Ok([name |-> "Get", key |-> args[1].s])
    ELSE Err(InvalidFormat)

\* LPush::with_args: a key and at least one value
LPush_with_args(args) ==
  IF Len(args) >= 2 /\ AllBulk(args)
    THEN Ok([name |-> "LPush", key |-> args[1].s, values |-> Texts(Tail(args))])
    ELSE Err(InvalidFormat)

\* RPush::with_args: a key and at least one value
RPush_with_args(args) ==
  IF Len(args) >= 2 /\ AllBulk(args)
    THEN Ok([name |-> "RPush", key |-> args[1].s, values |-> Texts(Tail(args))])
    ELSE Err(InvalidFormat)

\* LRange::with_args: a key and two signed integers
LRange_with_args(args) ==
  IF Len(args) = 3 /\ AllBulk(args) /\ IsInt(args[2].s) /\ IsInt(args[3].s)
    THEN Ok([name |-> "LRange", key |-> args[1].s,
             start |-> ParseInt(args[2].s), stop |-> ParseInt(args[3].s)])
    ELSE Err(InvalidFormat)

\* Command::from_resp_command_frame
from_resp_command_frame(frame) ==
  LET cmd_name == frame[1]
      args     == Tail(frame)
  IN  IF cmd_name.type # "BulkString" THEN Err(InvalidFormat)
      ELSE LET verb == to_lowercase(cmd_name.s)
           IN  CASE verb = s_ping    -> Ping_with_args(args)
                 [] verb = s_set     -> Set_with_args(args)
                 [] verb = s_get     -> Get_with_args(args)
                 [] verb = s_lpush   -> LPush_with_args(args)
                 [] verb = s_rpush   -> RPush_with_args(args)
                 [] verb = s_lrange  -> LRange_with_args(args)
                 [] verb = s_multi   -> Ok([name |-> "Multi"])
                 [] verb = s_exec    -> Ok([name |-> "Exec"])
                 [] verb = s_discard -> Ok([name |-> "Discard"])
                 [] OTHER            -> Err(UnknownCommand(cmd_name.s))

\* the outcome of one Command::execute call: the reply, the store afterwards,
\* and whether the call went to the storage engine
Outcome(resp, d, touched) == [resp |-> resp, db |-> d, store |-> touched]

\* Ping::apply
Ping_apply(cmd) ==
  IF cmd.msg # <<>> THEN BulkString(cmd.msg[1]) ELSE SimpleString(s_PONG)

\* Set::apply
Set_apply(cmd, d) ==
  Outcome(SimpleString(s_OK), db_set(d, cmd.key, cmd.value).db, TRUE)

\* Get::apply
Get_apply(cmd, d) ==
  LET r == db_get(d, cmd.key)
  IN  Outcome(IF ~r.ok THEN SimpleError(s_wrongtype)
              ELSE IF r.found THEN BulkString(r.val) ELSE NullBulkString,
              d, TRUE)

\* LPush::apply
LPush_apply(cmd, d) ==
  LET r == db_lpush(d, cmd.key, cmd.values)
  IN  Outcome(IF r.ok THEN Integer(r.len) ELSE SimpleError(s_wrongtype), r.db, TRUE)

\* RPush::apply
RPush_apply(cmd, d) ==
  LET r == db_rpush(d, cmd.key, cmd.values)
  IN  Outcome(IF r.ok THEN Integer(r.len) ELSE SimpleError(s_wrongtype), r.db, TRUE)

\* LRange::apply
LRange_apply(cmd, d) ==
  LET r == db_lrange(d, cmd.key, cmd.start, cmd.stop)
  IN  Outcome(IF r.ok THEN Array([i \in 1..Len(r.items) |-> BulkString(r.items[i])])
              ELSE SimpleError(s_wrongtype),
              d, TRUE)

\* execute with the arms of LPush and RPush exchanged
mut_execute(cmd, d) ==
  CASE cmd.name = "Ping"    -> Outcome(Ping_apply(cmd), d, FALSE)
    [] cmd.name = "Set"     -> Set_apply(cmd, d)
    [] cmd.name = "Get"     -> Get_apply(cmd, d)
    [] cmd.name = "LPush"   -> RPush_apply(cmd, d)
    [] cmd.name = "RPush"   -> LPush_apply(cmd, d)
    [] cmd.name = "LRange"  -> LRange_apply(cmd, d)
    [] cmd.name = "Multi"   -> Outcome(SimpleString(s_OK), d, FALSE)
    [] cmd.name = "Exec"    -> Outcome(NullBulkString, d, FALSE)
    [] cmd.name = "Discard" -> Outcome(SimpleString(s_OK), d, FALSE)

\* Command::execute
execute(cmd, d) ==
  CASE cmd.name = "Ping"    -> Outcome(Ping_apply(cmd), d, FALSE)
    [] cmd.name = "Set"     -> Set_apply(cmd, d)
    [] cmd.name = "Get"     -> Get_apply(cmd, d)
    [] cmd.name = "LPush"   -> LPush_apply(cmd, d)
    [] cmd.name = "RPush"   -> RPush_apply(cmd, d)
    [] cmd.name = "LRange"  -> LRange_apply(cmd, d)
    [] cmd.name = "Multi"   -> Outcome(SimpleString(s_OK), d, FALSE)
    [] cmd.name = "Exec"    -> Outcome(NullBulkString, d, FALSE)
    [] cmd.name = "Discard" -> Outcome(SimpleString(s_OK), d, FALSE)

(* ------------------------------ transaction ---------------------------- *)

\* Transaction::new
Transaction_new == [commands |-> <<>>, is_active |-> FALSE]

\* init without the check for a transaction already active
mut_init(t) == [ok |-> TRUE, txn |-> [t EXCEPT !.is_active = TRUE]]

\* Transaction::init
init(t) ==
  IF t.is_active THEN [ok |-> FALSE, txn |-> t]
  ELSE [ok |-> TRUE, txn |-> [t EXCEPT !.is_active = TRUE]]

\* add_command with the command put at the head of the queue
mut_add_command(t, entry) == [t EXCEPT !.commands = <<entry>> \o @]

\* Transaction::add_command
add_command(t, entry) == [t EXCEPT !.commands = Append(@, entry)]

\* Transaction::is_active
is_active(t) == t.is_active

\* discard resetting the flag and leaving the queue
mut_discard(t) == [t EXCEPT !.is_active = FALSE]

\* Transaction::discard
discard(t) == [t EXCEPT !.commands = <<>>, !.is_active = FALSE]

\* the loop of exec walking the queue from its tail
mut_exec_next(t, done) == Len(t.commands) - done

\* Transaction::exec, `for cmd in self.commands.iter()`: the queue position
\* executed once `done` commands have been executed
exec_next(t, done) == done + 1

\* the loop of exec stopping at the first command that failed
mut_exec_more(t, resps) ==
  /\ Len(resps) < Len(t.commands)
  /\ \A i \in 1..Len(resps) : resps[i].type # "SimpleError"

\* Transaction::exec, the loop condition: more queued commands to execute
exec_more(t, resps) == Len(resps) < Len(t.commands)

(* ------------------------------ inputs --------------------------------- *)

\* a frame as the decoder builds it: a sequence of bulk strings
Frame(parts) == [i \in 1..Len(parts) |-> BulkString(parts[i])]

F_multi == Frame(<<<<"M", "U", "L", "T", "I">>>>)

F_exec == Frame(<<<<"e", "x", "e", "c">>>>)

F_discard == Frame(<<<<"D", "i", "s", "c", "a", "r", "d">>>>)

F_set == Frame(<<<<"S", "E", "T">>, <<"a">>, <<"1">>>>)

F_get == Frame(<<<<"g", "e", "t">>, <<"a">>>>)

F_lpush == Frame(<<<<"L", "P", "U", "S", "H">>, <<"a">>, <<"2">>>>)

F_unknown == Frame(<<<<"F", "O", "O">>>>)

F_arity == Frame(<<<<"G", "E", "T">>>>)

\* the frames a client may send
Frames == {F_multi, F_exec, F_discard, F_set, F_get, F_lpush, F_unknown, F_arity}

\* the keys the frames name
Keys == {f[2].s : f \in {g \in Frames : Len(g) >= 2}}

\* outcome of writing a response: written and flushed, `send` failed,
\* or `send` succeeded and the following `flush` failed
IoOutcomes == {"ok", "send_err", "flush_err"}

\* frames of a client that tries the commands one by one: PING with no, one
\* and two arguments, verbs in mixed letter case, a verb that is none of the
\* known ones, a push of three values, a range over the whole list
G_ping0 == Frame(<<<<"P", "I", "N", "G">>>>)

G_ping1 == Frame(<<<<"p", "i", "n", "g">>, <<"x">>>>)

G_ping2 == Frame(<<<<"P", "i", "N", "g">>, <<"x">>, <<"y">>>>)

G_unknown == Frame(<<<<"G", "e", "T", "s">>, <<"a">>>>)

G_set == Frame(<<<<"S", "e", "T">>, <<"a">>, <<"1">>>>)

G_get == Frame(<<<<"g", "E", "t">>, <<"a">>>>)

G_lpush == Frame(<<<<"L", "P", "u", "s", "h">>, <<"a">>, <<"x">>, <<"y">>, <<"z">>>>)

G_rpush == Frame(<<<<"r", "P", "U", "S", "H">>, <<"a">>, <<"w">>>>)

G_lrange == Frame(<<<<"L", "R", "a", "n", "g", "e">>, <<"a">>, <<"0">>, <<"-", "1">>>>)

CmdFrames == {G_ping0, G_ping1, G_ping2, G_unknown, F_unknown, F_arity,
              G_set, G_get, G_lpush, G_rpush, G_lrange, F_exec, F_discard}

\* the parse of every frame of the repertoires, computed once
ParsedFrames == [f \in Frames \cup CmdFrames |-> from_resp_command_frame(f)]

(* ------------------------------ decoder -------------------------------- *)

\* the bytes of a stream are one-character strings
CR == "\r"

LF == "\n"

CRLF == <<CR, LF>>

\* the decimal digits of a natural number
RECURSIVE Decimal(_)
Decimal(n) ==
  IF n < 10 THEN <<DigitChars[n + 1]>>
  ELSE Decimal(n \div 10) \o <<DigitChars[(n % 10) + 1]>>

\* `$<len>\r\n<bytes>\r\n`
EncodeBulk(s) == <<"$">> \o Decimal(Len(s)) \o CRLF \o s \o CRLF

RECURSIVE EncodeBulks(_)
EncodeBulks(parts) ==
  IF parts = <<>> THEN <<>>
  ELSE EncodeBulk(Head(parts)) \o EncodeBulks(Tail(parts))

\* `*<N>\r\n`
EncodeHeader(n) == <<"*">> \o Decimal(n) \o CRLF

\* a request on the wire: the header and N bulk strings
EncodeFrame(parts) == EncodeHeader(Len(parts)) \o EncodeBulks(parts)

RECURSIVE EncodeStream(_)
EncodeStream(fs) ==
  IF fs = <<>> THEN <<>>
  ELSE EncodeFrame(Head(fs)) \o EncodeStream(Tail(fs))

\* BytesMut::advance
advance(src, n) == SubSeq(src, n + 1, Len(src))

\* the index of the first CR that is followed by LF, 0 if there is none
read_till_crlf(src) ==
  LET S == {i \in 1..(Len(src) - 1) : src[i] = CR /\ src[i + 1] = LF}
  IN  IF S = {} THEN 0 ELSE CHOOSE i \in S : \A j \in S : i <= j

\* a length line `<prefix><digits>\r\n`: nothing while the line is not
\* complete, an error if it is malformed, else the length and the bytes read
parse_len(src, prefix) ==
  LET i == read_till_crlf(src)
  IN  IF i = 0 THEN [kind |-> "none"]
      ELSE IF \/ src[1] # prefix
              \/ i < 3
              \/ \E j \in 2..(i - 1) : ~IsDigit(src[j])
        THEN [kind |-> "err"]
        ELSE [kind |-> "ok", len |-> Magnitude(SubSeq(src, 2, i - 1)),
              bytes_read |-> i + 1]

\* RespType::parse_array_len
parse_array_len(src) == parse_len(src, "*")

\* RespType::parse_bulk_string_len
parse_bulk_string_len(src) == parse_len(src, "$")

\* RespType::parse_bulk_string: the length line, that many bytes, and CRLF
parse_bulk_string(src) ==
  LET r == parse_bulk_string_len(src)
  IN  IF r.kind # "ok" THEN [kind |-> "err"]
      ELSE LET end == r.bytes_read + r.len
           IN  IF Len(src) < end + 2 \/ src[end + 1] # CR \/ src[end + 2] # LF
                 THEN [kind |-> "err"]
                 ELSE [kind |-> "ok",
                       part |-> BulkString(SubSeq(src, r.bytes_read + 1, end)),
                       bytes_read |-> end + 2]

\* CommandBuilder::new
CommandBuilder_new(n) == [num_parts |-> n, parts |-> <<>>]

\* CommandBuilder::add_part
add_part(b, part) == [b EXCEPT !.parts = Append(@, part)]

\* CommandBuilder::all_parts_received
all_parts_received(b) == Len(b.parts) = b.num_parts

\* CommandBuilder::build
build(b) == b.parts

\* the results of decode: Ok(None), Ok(Some(cmd)), Err(e); cb is the
\* cmd_builder (<<>> for None, <<b>> for Some(b)) and src the buffer afterwards
NeedMore(cb, src) == [result |-> "none", frame |-> <<>>, cb |-> cb, src |-> src]

Decoded(cmd, cb, src) == [result |-> "frame", frame |-> cmd, cb |-> cb, src |-> src]

Failed(cb, src) == [result |-> "err", frame |-> <<>>, cb |-> cb, src |-> src]

\* the header step leaving the header in the buffer
mut_decode_header(cb, src) ==
  IF cb # <<>> THEN [go |-> TRUE, cb |-> cb, src |-> src]
  ELSE LET r == parse_array_len(src)
       IN  CASE r.kind = "none" -> [go |-> FALSE, ret |-> NeedMore(cb, src)]
             [] r.kind = "err"  -> [go |-> FALSE, ret |-> Failed(cb, src)]
             [] r.kind = "ok"   ->
                  [go |-> TRUE, cb |-> <<CommandBuilder_new(r.len)>>, src |-> src]

\* the header step yielding the command at once when the header announces
\* no part
mut_decode_header_empty(cb, src) ==
  IF cb # <<>> THEN [go |-> TRUE, cb |-> cb, src |-> src]
  ELSE LET r == parse_array_len(src)
       IN  CASE r.kind = "none" -> [go |-> FALSE, ret |-> NeedMore(cb, src)]
             [] r.kind = "err"  -> [go |-> FALSE, ret |-> Failed(cb, src)]
             [] r.kind = "ok"   ->
                  IF all_parts_received(CommandBuilder_new(r.len))
                    THEN [go |-> FALSE,
                          ret |-> Decoded(build(CommandBuilder_new(r.len)), <<>>,
                                          advance(src, r.bytes_read))]
                    ELSE [go |-> TRUE, cb |-> <<CommandBuilder_new(r.len)>>,
                          src |-> advance(src, r.bytes_read)]

\* RespCommandFrame::decode, the part run when there is no builder: the array
\* header is parsed, the builder created and the header consumed
decode_header(cb, src) ==
  IF cb # <<>> THEN [go |-> TRUE, cb |-> cb, src |-> src]
  ELSE LET r == parse_array_len(src)
       IN  CASE r.kind = "none" -> [go |-> FALSE, ret |-> NeedMore(cb, src)]
             [] r.kind = "err"  -> [go |-> FALSE, ret |-> Failed(cb, src)]
             [] r.kind = "ok"   ->
                  [go |-> TRUE, cb |-> <<CommandBuilder_new(r.len)>>,
                   src |-> advance(src, r.bytes_read)]

\* the bytes of a bulk string counted without its closing CRLF
mut_bulkstr_bytes(len, bytes_read) == len + bytes_read

\* `bulkstr_bytes`: the bytes of the whole bulk string
bulkstr_bytes(len, bytes_read) == len + bytes_read + 2

\* the last part received, the builder kept
mut_all_received(b, src) == Decoded(build(b), <<b>>, src)

\* the last part received: the command is built and the builder dropped
all_received(b, src) == Decoded(build(b), <<>>, src)

\* the length line of a bulk string consumed before its body is there
mut_bulk_incomplete(cb, src, bytes_read) == NeedMore(cb, advance(src, bytes_read))

\* the buffer does not hold the whole bulk string yet
bulk_incomplete(cb, src, bytes_read) == NeedMore(cb, src)

\* RespCommandFrame::decode, the loop over the bytes in the buffer
RECURSIVE decode_loop(_, _)
decode_loop(cb, src) ==
  IF Len(src) = 0 THEN NeedMore(cb, src)
  ELSE LET r == parse_bulk_string_len(src)
       IN  CASE r.kind = "none" -> NeedMore(cb, src)
             [] r.kind = "err"  -> Failed(cb, src)
             [] r.kind = "ok"   ->
                  IF Len(src) < bulkstr_bytes(r.len, r.bytes_read)
                    THEN bulk_incomplete(cb, src, r.bytes_read)
                    ELSE LET p == parse_bulk_string(src)
                         IN  IF p.kind = "err" THEN Failed(cb, src)
                             ELSE LET b    == add_part(cb[1], p.part)
                                      rest == advance(src, p.bytes_read)
                                  IN  IF all_parts_received(b)
                                        THEN all_received(b, rest)
                                        ELSE decode_loop(<<b>>, rest)

\* RespCommandFrame::decode
decode(cb, src) ==
  LET h == decode_header(cb, src)
  IN  IF h.go THEN decode_loop(h.cb, h.src) ELSE h.ret

\* the requests a client may write: one with no element, one of one string,
\* one of a string and an empty string
DecRequests == {<<>>, <<<<"a">>>>, <<<<"b">>, <<>>>>}

(* ------------------------------ state ---------------------------------- *)

VARIABLES
  db,         \* the shared store: key -> StoredValue
  txn,        \* per connection: `multicommand`, the Transaction of its handler
  pc,         \* per connection: "run" (awaiting a frame), "exec" (inside
              \* Transaction::exec), "done" (handler returned)
  responses,  \* per connection: the `responses` vector of a running exec
  nreq,       \* per connection: number of frames decoded so far
  request,    \* per connection: the frame decoded last
  response,   \* per connection: the response computed last
  sent,       \* per connection: for each response written, the request it answers
  dropped,    \* per connection: queued requests thrown away, with the cause
  ended,      \* per connection: why the handler returned
  lastOp,     \* the latest storage call: connection and request that made it
  decoder     \* the Framed stream of one connection and its RespCommandFrame

handlers == <<db, txn, pc, responses, nreq, request, response, sent,
              dropped, ended, lastOp>>

\* the bytes written by the client and not yet read from the socket
wire == decoder.wire

\* the requests the client wrote, in order
written == decoder.written

\* the read buffer of the Framed stream (`src`)
buf == decoder.buf

\* RespCommandFrame.cmd_builder, <<>> for None
cmd_builder == decoder.cmd_builder

\* the frames the stream has yielded
yielded == decoder.yielded

\* the Framed stream has bytes it has not tried to decode
readable == decoder.readable

\* the result of the latest decode call
last == decoder.last

\* the number of decode calls made
calls == decoder.calls

\* the bytes consumed since the frame before was yielded
taken == decoder.taken

\* the peer has closed its end of the connection
eof == decoder.eof

\* a Framed stream that has read nothing, with a new RespCommandFrame, on a
\* connection the client wrote the requests w to
NewStream(w) ==
  [wire |-> EncodeStream(w), written |-> w, buf |-> <<>>, cmd_builder |-> <<>>,
   yielded |-> <<>>, readable |-> FALSE, last |-> "idle", calls |-> 0,
   taken |-> <<>>, eof |-> FALSE]

vars == <<handlers, decoder>>

RECURSIVE SumOver(_, _)
SumOver(f, S) ==
  IF S = {} THEN 0
  ELSE LET x == CHOOSE y \in S : TRUE IN f[x] + SumOver(f, S \ {x})

Total == SumOver(nreq, Conns)

NoOp == [conn |-> "none", req |-> 0]

NoResponse == [type |-> "None"]

\* the decoder of a connection nothing is written to
DecoderAtRest == decoder = NewStream(<<>>)

HandlersInit ==
  /\ db = [k \in Keys |-> Absent]
  /\ txn = [c \in Conns |-> Transaction_new]
  /\ pc = [c \in Conns |-> "run"]
  /\ responses = [c \in Conns |-> <<>>]
  /\ nreq = [c \in Conns |-> 0]
  /\ request = [c \in Conns |-> <<>>]
  /\ response = [c \in Conns |-> NoResponse]
  /\ sent = [c \in Conns |-> <<>>]
  /\ dropped = [c \in Conns |-> {}]
  /\ ended = [c \in Conns |-> "no"]
  /\ lastOp = NoOp

Init == HandlersInit /\ DecoderAtRest

\* the queued requests of a transaction, marked with why they are thrown away
Drop(t, why) == {[req |-> t.commands[i].req, by |-> why] : i \in 1..Len(t.commands)}

\* `self.conn.next().await` yields Some(Ok(frame))
Decode(c, frame) ==
  /\ pc[c] = "run"
  /\ nreq[c] < MaxReq(c)
  /\ Total < MaxTotal
  /\ nreq' = [nreq EXCEPT ![c] = @ + 1]

\* FrameHandler::handle returns: the loop is left, `multicommand` and the
\* locals of the loop are dropped; t is the transaction held at that moment
Return(c, t, why, drops) ==
  /\ pc' = [pc EXCEPT ![c] = "done"]
  /\ ended' = [ended EXCEPT ![c] = why]
  /\ dropped' = [dropped EXCEPT ![c] = @ \cup drops \cup Drop(t, why)]
  /\ txn' = [txn EXCEPT ![c] = Transaction_new]
  /\ request' = [request EXCEPT ![c] = <<>>]
  /\ response' = [response EXCEPT ![c] = NoResponse]

\* the tail of the loop body writing nothing when the response is an error
mut_Send(c, frame, resp, io, t, drops) ==
  /\ sent' = [sent EXCEPT ![c] = IF io = "send_err" \/ resp.type = "SimpleError"
                                   THEN @ ELSE Append(@, nreq'[c])]
  /\ IF io = "ok"
       THEN /\ txn' = [txn EXCEPT ![c] = t]
            /\ request' = [request EXCEPT ![c] = frame]
            /\ response' = [response EXCEPT ![c] = resp]
            /\ dropped' = [dropped EXCEPT ![c] = @ \cup drops]
            /\ pc' = [pc EXCEPT ![c] = "run"]
            /\ ended' = ended
       ELSE Return(c, t, "io", drops)

\* the tail of the loop body storing the transaction in one place shared by
\* all the connections
mut_SendShared(c, frame, resp, io, t, drops) ==
  /\ sent' = [sent EXCEPT ![c] = IF io = "send_err" THEN @ ELSE Append(@, nreq'[c])]
  /\ IF io = "ok"
       THEN /\ txn' = [o \in Conns |-> t]
            /\ request' = [request EXCEPT ![c] = frame]
            /\ response' = [response EXCEPT ![c] = resp]
            /\ dropped' = [dropped EXCEPT ![c] = @ \cup drops]
            /\ pc' = [pc EXCEPT ![c] = "run"]
            /\ ended' = ended
       ELSE Return(c, t, "io", drops)

\* the tail of the loop body: `self.conn.send(response)` then
\* `self.conn.flush()`; t is the transaction after the frame was handled,
\* drops the queued requests thrown away while handling it.  A failed send
\* or flush makes the handler return.
Send(c, frame, resp, io, t, drops) ==
  /\ sent' = [sent EXCEPT ![c] = IF io = "send_err" THEN @ ELSE Append(@, nreq'[c])]
  /\ IF io = "ok"
       THEN /\ txn' = [txn EXCEPT ![c] = t]
            /\ request' = [request EXCEPT ![c] = frame]
            /\ response' = [response EXCEPT ![c] = resp]
            /\ dropped' = [dropped EXCEPT ![c] = @ \cup drops]
            /\ pc' = [pc EXCEPT ![c] = "run"]
            /\ ended' = ended
       ELSE Return(c, t, "io", drops)

\* FrameHandler::handle, arm Command::Multi
HandleMulti(c, frame, io) ==
  /\ UNCHANGED decoder
  /\ Decode(c, frame)
  /\ LET parsed == ParsedFrames[frame]
     IN  /\ parsed.ok
         /\ parsed.cmd.name = "Multi"
         /\ LET r == init(txn[c])
            IN  Send(c, frame,
                     IF r.ok THEN execute(parsed.cmd, db).resp
                     ELSE SimpleError(TransactionError_fmt),
                     io, r.txn, {})
  /\ UNCHANGED <<db, responses, lastOp>>

\* the Exec arm answering with the direct result of the command when no
\* transaction is active
mut_HandleExecIdle(c, frame, io) ==
  /\ UNCHANGED decoder
  /\ Decode(c, frame)
  /\ LET parsed == ParsedFrames[frame]
     IN  /\ parsed.ok
         /\ parsed.cmd.name = "Exec"
         /\ ~is_active(txn[c])
         /\ Send(c, frame, execute(parsed.cmd, db).resp, io, txn[c], {})
  /\ UNCHANGED <<db, responses, lastOp>>

\* FrameHandler::handle, arm Command::Exec, no transaction active
HandleExecIdle(c, frame, io) ==
  /\ UNCHANGED decoder
  /\ Decode(c, frame)
  /\ LET parsed == ParsedFrames[frame]
     IN  /\ parsed.ok
         /\ parsed.cmd.name = "Exec"
         /\ ~is_active(txn[c])
         /\ Send(c, frame, SimpleError(s_exec_without_multi), io, txn[c], {})
  /\ UNCHANGED <<db, responses, lastOp>>

\* FrameHandler::handle, arm Command::Exec, transaction active: enters
\* Transaction::exec with an empty `responses` vector
HandleExecActive(c, frame) ==
  /\ UNCHANGED decoder
  /\ Decode(c, frame)
  /\ LET parsed == ParsedFrames[frame]
     IN  /\ parsed.ok
         /\ parsed.cmd.name = "Exec"
         /\ is_active(txn[c])
  /\ pc' = [pc EXCEPT ![c] = "exec"]
  /\ request' = [request EXCEPT ![c] = frame]
  /\ responses' = [responses EXCEPT ![c] = <<>>]
  /\ UNCHANGED <<db, txn, response, sent, dropped, ended, lastOp>>

\* Transaction::exec, one iteration of the loop: one queued command is
\* executed, as one storage-engine call, and its result is pushed
ExecStep(c) ==
  /\ UNCHANGED decoder
  /\ pc[c] = "exec"
  /\ exec_more(txn[c], responses[c])
  /\ LET entry == txn[c].commands[exec_next(txn[c], Len(responses[c]))]
         out   == execute(entry.cmd, db)
     IN  /\ db' = out.db
         /\ responses' = [responses EXCEPT ![c] = Append(@, out.resp)]
         /\ lastOp' = IF out.store THEN [conn |-> c, req |-> entry.req] ELSE lastOp
  /\ UNCHANGED <<txn, pc, nreq, request, response, sent, dropped, ended>>

\* Transaction::exec after the loop (discard, return the array), then the
\* handler writes the array
ExecFinish(c, io) ==
  /\ UNCHANGED decoder
  /\ pc[c] = "exec"
  /\ ~exec_more(txn[c], responses[c])
  /\ UNCHANGED <<db, nreq, lastOp>>
  /\ Send(c, request[c], Array(responses[c]), io, discard(txn[c]), {})
  /\ responses' = [responses EXCEPT ![c] = <<>>]

\* FrameHandler::handle, arm Command::Discard
HandleDiscard(c, frame, io) ==
  /\ UNCHANGED decoder
  /\ Decode(c, frame)
  /\ LET parsed == ParsedFrames[frame]
     IN  /\ parsed.ok
         /\ parsed.cmd.name = "Discard"
         /\ IF is_active(txn[c])
              THEN Send(c, frame, execute(parsed.cmd, db).resp, io,
                        discard(txn[c]), Drop(txn[c], "discard"))
              ELSE Send(c, frame, SimpleError(s_discard_without_multi), io, txn[c], {})
  /\ UNCHANGED <<db, responses, lastOp>>

\* the arm `_` taken by every command, MULTI, EXEC and DISCARD included
mut_HandleOther(c, frame, io) ==
  /\ UNCHANGED decoder
  /\ Decode(c, frame)
  /\ LET parsed == ParsedFrames[frame]
     IN  /\ parsed.ok
         /\ IF is_active(txn[c])
              THEN /\ Send(c, frame, SimpleString(s_QUEUED), io,
                           add_command(txn[c], [cmd |-> parsed.cmd, req |-> nreq'[c]]),
                           {})
                   /\ UNCHANGED <<db, lastOp>>
              ELSE LET out == execute(parsed.cmd, db)
                   IN  /\ db' = out.db
                       /\ lastOp' = IF out.store THEN [conn |-> c, req |-> nreq'[c]]
                                    ELSE lastOp
                       /\ Send(c, frame, out.resp, io, txn[c], {})
  /\ UNCHANGED responses

\* FrameHandler::handle, arm `_`: queue the command if a transaction is
\* active, else execute it
HandleOther(c, frame, io) ==
  /\ UNCHANGED decoder
  /\ Decode(c, frame)
  /\ LET parsed == ParsedFrames[frame]
     IN  /\ parsed.ok
         /\ parsed.cmd.name \notin {"Multi", "Exec", "Discard"}
         /\ IF is_active(txn[c])
              THEN /\ Send(c, frame, SimpleString(s_QUEUED), io,
                           add_command(txn[c], [cmd |-> parsed.cmd, req |-> nreq'[c]]),
                           {})
                   /\ UNCHANGED <<db, lastOp>>
              ELSE LET out == execute(parsed.cmd, db)
                   IN  /\ db' = out.db
                       /\ lastOp' = IF out.store THEN [conn |-> c, req |-> nreq'[c]]
                                    ELSE lastOp
                       /\ Send(c, frame, out.resp, io, txn[c], {})
  /\ UNCHANGED responses

\* the parse-error arm leaving an active transaction as it is
mut_HandleParseError(c, frame, io) ==
  /\ UNCHANGED decoder
  /\ Decode(c, frame)
  /\ LET parsed == ParsedFrames[frame]
     IN  /\ ~parsed.ok
         /\ Send(c, frame, SimpleError(CommandError_fmt(parsed.err)), io, txn[c], {})
  /\ UNCHANGED <<db, responses, lastOp>>

\* the parse-error arm propagating the error out of the handler
mut_HandleParseErrorReturn(c, frame, io) ==
  /\ UNCHANGED decoder
  /\ Decode(c, frame)
  /\ LET parsed == ParsedFrames[frame]
     IN  /\ ~parsed.ok
         /\ Return(c, txn[c], "parse", {})
  /\ UNCHANGED <<db, responses, sent, lastOp>>

\* FrameHandler::handle, arm Err(e) of the parse: an active transaction is
\* discarded and the parse error is the response
HandleParseError(c, frame, io) ==
  /\ UNCHANGED decoder
  /\ Decode(c, frame)
  /\ LET parsed == ParsedFrames[frame]
     IN  /\ ~parsed.ok
         /\ Send(c, frame, SimpleError(CommandError_fmt(parsed.err)), io,
                 IF is_active(txn[c]) THEN discard(txn[c]) ELSE txn[c],
                 IF is_active(txn[c]) THEN Drop(txn[c], "parse") ELSE {})
  /\ UNCHANGED <<db, responses, lastOp>>

\* FrameHandler::handle, arm Err(e) of the stream: the decoder (or the
\* socket read) failed; the handler logs it and leaves the loop
DecodeError(c) ==
  /\ UNCHANGED decoder
  /\ pc[c] = "run"
  /\ Return(c, txn[c], "decode", {})
  /\ UNCHANGED <<db, responses, nreq, sent, lastOp>>

\* the end of the stream ignored: the handler keeps waiting for a frame
mut_StreamEnd(c) ==
  /\ pc[c] = "run"
  /\ UNCHANGED vars

\* `self.conn.next().await` yields None: the peer closed the stream
StreamEnd(c) ==
  /\ UNCHANGED decoder
  /\ pc[c] = "run"
  /\ Return(c, txn[c], "eof", {})
  /\ UNCHANGED <<db, responses, nreq, sent, lastOp>>

Next ==
  \/ \E c \in Conns, f \in Frames, io \in IoOutcomes : HandleMulti(c, f, io)
  \/ \E c \in Conns, f \in Frames, io \in IoOutcomes : HandleExecIdle(c, f, io)
  \/ \E c \in Conns, f \in Frames : HandleExecActive(c, f)
  \/ \E c \in Conns : ExecStep(c)
  \/ \E c \in Conns, io \in IoOutcomes : ExecFinish(c, io)
  \/ \E c \in Conns, f \in Frames, io \in IoOutcomes : HandleDiscard(c, f, io)
  \/ \E c \in Conns, f \in Frames, io \in IoOutcomes : HandleOther(c, f, io)
  \/ \E c \in Conns, f \in Frames, io \in IoOutcomes : HandleParseError(c, f, io)
  \/ \E c \in Conns : DecodeError(c)
  \/ \E c \in Conns : StreamEnd(c)

Spec == Init /\ [][Next]_vars

\* one connection, never in a transaction, every write succeeding: the
\* handler parses each frame and executes the command against the store
Client == "A"

NextCmd ==
  \/ \E f \in CmdFrames : HandleOther(Client, f, "ok")
  \/ \E f \in CmdFrames : HandleParseError(Client, f, "ok")
  \/ \E f \in CmdFrames : HandleExecIdle(Client, f, "ok")
  \/ \E f \in CmdFrames : HandleDiscard(Client, f, "ok")

SpecCmd == Init /\ [][NextCmd]_vars

\* the peer closes its end of the connection: after the frames already
\* received, the stream will yield None
PeerClose ==
  /\ ~eof
  /\ pc[Client] # "done"
  /\ decoder' = [decoder EXCEPT !.eof = TRUE]
  /\ UNCHANGED handlers

\* `self.conn.next().await` yields None after the peer closed
StreamEndSeen == eof /\ StreamEnd(Client)

\* one connection whose peer closes at some moment; the frames received
\* before may still be handled afterwards
NextLive ==
  \/ \E f \in Frames, io \in IoOutcomes : HandleMulti(Client, f, io)
  \/ \E f \in Frames, io \in IoOutcomes : HandleExecIdle(Client, f, io)
  \/ \E f \in Frames : HandleExecActive(Client, f)
  \/ ExecStep(Client)
  \/ \E io \in IoOutcomes : ExecFinish(Client, io)
  \/ \E f \in Frames, io \in IoOutcomes : HandleDiscard(Client, f, io)
  \/ \E f \in Frames, io \in IoOutcomes : HandleOther(Client, f, io)
  \/ \E f \in Frames, io \in IoOutcomes : HandleParseError(Client, f, io)
  \/ DecodeError(Client)
  \/ PeerClose
  \/ StreamEndSeen

\* the runtime polls a task that is ready: a handler inside
\* Transaction::exec goes on, and a handler awaiting a frame on a closed
\* stream gets the end of the stream
SpecLive ==
  /\ Init
  /\ [][NextLive]_vars
  /\ WF_vars(ExecStep(Client))
  /\ WF_vars(\E io \in IoOutcomes : ExecFinish(Client, io))
  /\ WF_vars(StreamEndSeen)

\* the requests one client writes on its connection
MaxWritten == 2

\* the streams a client may write: one to MaxWritten requests
Streams == UNION {[1..n -> DecRequests] : n \in 1..MaxWritten}

\* a connection just accepted: the client has written its requests, the
\* Framed stream has read nothing yet and the decoder has no builder
InitDecode ==
  /\ HandlersInit
  /\ \E w \in Streams : decoder = NewStream(w)

\* `self.conn.next()`: the Framed stream, after decode asked for more bytes,
\* reads from the socket; the n next bytes arrive at the end of the buffer
Deliver(n) ==
  /\ ~readable
  /\ last # "err"
  /\ n \in 1..Len(wire)
  /\ decoder' = [decoder EXCEPT !.buf = buf \o SubSeq(wire, 1, n),
                                 !.wire = advance(wire, n),
                                 !.readable = TRUE]
  /\ UNCHANGED handlers

\* `self.conn.next()`: the Framed stream calls RespCommandFrame::decode on
\* its buffer; a frame is yielded and decode is called again, Ok(None) makes
\* the stream read from the socket, an error ends the stream
DecodeCall ==
  /\ readable
  /\ LET r == decode(cmd_builder, buf)
     IN  decoder' =
           [decoder EXCEPT
              !.cmd_builder = r.cb,
              !.buf = r.src,
              !.last = r.result,
              !.yielded = IF r.result = "frame" THEN Append(@, r.frame) ELSE @,
              !.readable = (r.result = "frame"),
              !.taken = (IF last = "frame" THEN <<>> ELSE @)
                          \o SubSeq(buf, 1, Len(buf) - Len(r.src)),
              !.calls = @ + 1]
  /\ UNCHANGED handlers

NextDecode ==
  \/ \E n \in 1..Len(wire) : Deliver(n)
  \/ DecodeCall

SpecDecode == InitDecode /\ [][NextDecode]_vars

(* ------------------------------ properties ----------------------------- *)

\* connection c decoded a frame in this step and its handler goes on
Handles(c) == nreq'[c] = nreq[c] + 1 /\ pc'[c] # "done"

\* the parse of the frame connection c decoded in this step
Parsed(c) == ParsedFrames[request'[c]]

\* connection c decoded, in this step, a frame that parses to the command
\* named name, and its handler goes on
HandlesCmd(c, name) == Handles(c) /\ Parsed(c).ok /\ Parsed(c).cmd.name = name

\* C1: while the transaction of a connection is active, a frame that parses
\* to a command other than MULTI, EXEC and DISCARD is appended at the end of
\* the queue of that connection, the response is QUEUED, and no frame handled
\* while active changes the store in that step.
C1_QueuedWhileActive ==
  [][\A c \in Conns :
       (nreq'[c] = nreq[c] + 1 /\ txn[c].is_active) =>
         /\ db' = db
         /\ lastOp' = lastOp
         /\ (Handles(c) /\ Parsed(c).ok
               /\ Parsed(c).cmd.name \notin {"Multi", "Exec", "Discard"}) =>
              /\ txn'[c].is_active
              /\ txn'[c].commands =
                   Append(txn[c].commands, [cmd |-> Parsed(c).cmd, req |-> nreq'[c]])
              /\ response'[c] = SimpleString(s_QUEUED)]_vars

\* C1 witness: two commands queued in arrival order, the second just
\* acknowledged with QUEUED, the store still empty
C1_Witness ==
  \E c \in Conns :
    /\ txn[c].is_active
    /\ Len(txn[c].commands) = 2
    /\ txn[c].commands[1].cmd.name = "Set"
    /\ txn[c].commands[2].cmd.name = "Get"
    /\ request[c] = F_get
    /\ response[c] = SimpleString(s_QUEUED)
    /\ \A k \in Keys : db[k] = Absent

\* C2: EXEC while active executes the queued commands in arrival order, the
\* i-th step executing the i-th queued command against the store and pushing
\* its result as the i-th value; the answer is the array of these values, one
\* per queued command, and afterwards the queue is empty and the state idle.
C2_ExecFifo ==
  [][\A c \in Conns :
       /\ (HandlesCmd(c, "Exec") /\ txn[c].is_active) =>
            pc'[c] = "exec" /\ responses'[c] = <<>> /\ txn'[c] = txn[c]
       /\ (pc[c] = "exec" /\ pc'[c] = "exec" /\ responses'[c] # responses[c]) =>
            LET i   == Len(responses[c]) + 1
                out == execute(txn[c].commands[i].cmd, db)
            IN  /\ i <= Len(txn[c].commands)
                /\ responses'[c] = Append(responses[c], out.resp)
                /\ db' = out.db
                /\ out.store => lastOp' = [conn |-> c, req |-> txn[c].commands[i].req]
                /\ txn'[c] = txn[c]
       /\ (pc[c] = "exec" /\ pc'[c] = "run") =>
            /\ Len(responses[c]) = Len(txn[c].commands)
            /\ response'[c] = Array(responses[c])
            /\ txn'[c].commands = <<>>
            /\ ~txn'[c].is_active]_vars

\* C2 witness: an EXEC of two queued commands has been answered with an array
\* of two different values, and the transaction is idle with an empty queue
C2_Witness ==
  \E c \in Conns :
    /\ pc[c] = "run"
    /\ request[c] = F_exec
    /\ response[c].type = "Array"
    /\ Len(response[c].items) = 2
    /\ response[c].items[1] # response[c].items[2]
    /\ txn[c] = Transaction_new

\* C3: while an EXEC has executed at least one and not yet all of its queued
\* commands, no other connection executes a command against the store.
C3_ExecAtomic ==
  [][\A c \in Conns :
       (pc[c] = "exec" /\ Len(responses[c]) >= 1
          /\ Len(responses[c]) < Len(txn[c].commands)) =>
         (lastOp' = lastOp \/ lastOp'.conn = c)]_vars

\* C4: inside EXEC a queued command that fails contributes one SimpleError at
\* its position, leaves the store (with the effects of the earlier commands)
\* as it is, the loop goes on to the later commands, and the EXEC still ends
\* with one value per queued command, an empty queue and the idle state.
C4_NoRollbackNoShortCircuit ==
  [][\A c \in Conns :
       /\ (pc[c] = "exec" /\ Len(responses[c]) < Len(txn[c].commands)) =>
            /\ pc'[c] = "exec"
            /\ responses'[c] # responses[c] =>
                 /\ SubSeq(responses'[c], 1, Len(responses[c])) = responses[c]
                 /\ Len(responses'[c]) = Len(responses[c]) + 1
                 /\ responses'[c][Len(responses'[c])].type = "SimpleError" => db' = db
       /\ (pc[c] = "exec" /\ pc'[c] # "exec") =>
            /\ Len(responses[c]) = Len(txn[c].commands)
            /\ db' = db
            /\ txn'[c] = Transaction_new
            /\ pc'[c] = "run" => response'[c] = Array(responses[c])]_vars

\* C4 witness: an EXEC answered with an array whose second value is an error,
\* followed by the value of a later command, the effect of the first queued
\* command still in the store
C4_Witness ==
  \E c \in Conns :
    /\ pc[c] = "run"
    /\ request[c] = F_exec
    /\ response[c].type = "Array"
    /\ Len(response[c].items) = 3
    /\ response[c].items[1] = SimpleString(s_OK)
    /\ response[c].items[2].type = "SimpleError"
    /\ response[c].items[3].type = "BulkString"
    /\ \E k \in Keys : db[k].kind = "Str"
    /\ txn[c] = Transaction_new

\* C5: DISCARD while active empties the queue, makes the transaction idle, is
\* answered OK and leaves the store; no command that a DISCARD removed from
\* the queue is executed against the store in any later step.
C5_Discard ==
  [][\A c \in Conns :
       /\ (HandlesCmd(c, "Discard") /\ txn[c].is_active) =>
            /\ txn'[c].commands = <<>>
            /\ ~txn'[c].is_active
            /\ response'[c] = SimpleString(s_OK)
            /\ db' = db
            /\ \A i \in 1..Len(txn[c].commands) :
                 [req |-> txn[c].commands[i].req, by |-> "discard"] \in dropped'[c]
       /\ (lastOp' # lastOp /\ lastOp'.conn = c) =>
            [req |-> lastOp'.req, by |-> "discard"] \notin dropped'[c]]_vars

\* C5 witness: a queued command was discarded, and a later MULTI ... EXEC of
\* the same connection has completed without executing it
C5_Witness ==
  \E c \in Conns :
    /\ \E d \in dropped[c] : d.by = "discard"
    /\ pc[c] = "run"
    /\ request[c] = F_exec
    /\ response[c] = Array(<<>>)
    /\ lastOp = NoOp

\* C6: MULTI while active is answered with an error and leaves the
\* transaction (flag, queue and its order) and the store as they were.
C6_NestedMulti ==
  [][\A c \in Conns :
       (HandlesCmd(c, "Multi") /\ txn[c].is_active) =>
         /\ response'[c].type = "SimpleError"
         /\ txn'[c] = txn[c]
         /\ db' = db]_vars

\* C6 witness: a nested MULTI was refused while a command is queued
C6_Witness ==
  \E c \in Conns :
    /\ request[c] = F_multi
    /\ response[c] = SimpleError(s_cannot_nest)
    /\ txn[c].is_active
    /\ Len(txn[c].commands) = 1

\* C7: EXEC while idle is answered "EXEC without MULTI" and DISCARD while
\* idle "DISCARD without MULTI"; the transaction and the store do not change.
C7_WithoutMulti ==
  [][\A c \in Conns :
       /\ (HandlesCmd(c, "Exec") /\ ~txn[c].is_active) =>
            /\ response'[c] = SimpleError(s_exec_without_multi)
            /\ pc'[c] = "run"
            /\ txn'[c] = txn[c]
            /\ db' = db
       /\ (HandlesCmd(c, "Discard") /\ ~txn[c].is_active) =>
            /\ response'[c] = SimpleError(s_discard_without_multi)
            /\ txn'[c] = txn[c]
            /\ db' = db]_vars

\* C7 witness: one idle connection was refused an EXEC, another a DISCARD
C7_Witness ==
  \E c, o \in Conns :
    /\ request[c] = F_exec
    /\ response[c] = SimpleError(s_exec_without_multi)
    /\ txn[c] = Transaction_new
    /\ request[o] = F_discard
    /\ response[o] = SimpleError(s_discard_without_multi)
    /\ txn[o] = Transaction_new

\* the frame decoded before this step failed to parse, and the one decoded
\* in this step is an EXEC
ExecAfterParseError(c) ==
  /\ request[c] # <<>>
  /\ ~ParsedFrames[request[c]].ok
  /\ HandlesCmd(c, "Exec")

\* C8: a frame that fails to parse while active empties the queue, makes the
\* transaction idle and is answered with the parse error; the queue entries
\* it removed are never executed, and an EXEC that follows is answered
\* "EXEC without MULTI".
C8_ParseErrorAborts ==
  [][\A c \in Conns :
       /\ (Handles(c) /\ ~Parsed(c).ok /\ txn[c].is_active) =>
            /\ txn'[c].commands = <<>>
            /\ ~txn'[c].is_active
            /\ response'[c] = SimpleError(CommandError_fmt(Parsed(c).err))
            /\ db' = db
            /\ \A i \in 1..Len(txn[c].commands) :
                 [req |-> txn[c].commands[i].req, by |-> "parse"] \in dropped'[c]
       /\ (lastOp' # lastOp /\ lastOp'.conn = c) =>
            [req |-> lastOp'.req, by |-> "parse"] \notin dropped'[c]
       /\ ExecAfterParseError(c) =>
            response'[c] = SimpleError(s_exec_without_multi)]_vars

\* C8 witness: an unknown verb aborted a transaction holding a command, and
\* the EXEC that followed was refused
C8_Witness ==
  \E c \in Conns :
    /\ \E d \in dropped[c] : d.by = "parse"
    /\ request[c] = F_exec
    /\ response[c] = SimpleError(s_exec_without_multi)
    /\ txn[c] = Transaction_new
    /\ \A k \in Keys : db[k] = Absent

\* C9: the k-th response a connection writes answers its k-th decoded frame;
\* a handler waiting for a frame has answered every frame it decoded, a
\* handler inside EXEC all but the EXEC, and a handler that returned all but
\* possibly the last one, whose write failed.
C9_OneResponsePerRequest ==
  \A c \in Conns :
    /\ \A k \in 1..Len(sent[c]) : sent[c][k] = k
    /\ pc[c] = "run" => Len(sent[c]) = nreq[c]
    /\ pc[c] = "exec" => Len(sent[c]) = nreq[c] - 1
    /\ pc[c] = "done" =>
         \/ Len(sent[c]) = nreq[c]
         \/ ended[c] = "io" /\ Len(sent[c]) = nreq[c] - 1

\* C9 witness: a connection has decoded four frames, the last one answered
\* with an error, and written four responses
C9_Witness ==
  \E c \in Conns :
    /\ pc[c] = "run"
    /\ nreq[c] = 4
    /\ sent[c] = <<1, 2, 3, 4>>
    /\ response[c].type = "SimpleError"

\* C10: a handler returns only on a decode error, an I/O error of the write
\* or the end of the stream; handling a frame whose write succeeds never
\* ends it, whatever error the response is; a handler that returned decodes
\* nothing more; and the step that ends one connection leaves the handlers of
\* the others as they were.
C10_OnlyDecodeOrIoEnds ==
  [][\A c \in Conns :
       /\ (pc[c] # "done" /\ pc'[c] = "done") =>
            /\ ended'[c] \in {"decode", "io", "eof"}
            /\ nreq'[c] = nreq[c] + 1 => ended'[c] = "io"
            /\ \A o \in Conns \ {c} :
                 /\ pc'[o] = pc[o] /\ txn'[o] = txn[o] /\ nreq'[o] = nreq[o]
                 /\ sent'[o] = sent[o] /\ responses'[o] = responses[o]
       /\ pc[c] = "done" =>
            /\ pc'[c] = "done" /\ nreq'[c] = nreq[c] /\ sent'[c] = sent[c]
            /\ ended'[c] = ended[c]
            /\ (lastOp' # lastOp => lastOp'.conn # c)]_vars

\* C10 witness: one connection ended on a decode error while another, which
\* had a transaction aborted by a parse error, went on to execute a command
C10_Witness ==
  \E c, o \in Conns :
    /\ ended[c] = "decode"
    /\ pc[o] = "run"
    /\ \E d \in dropped[o] : d.by = "parse"
    /\ lastOp = [conn |-> o, req |-> nreq[o]]
    /\ response[o].type # "SimpleError"

\* connection c takes this step
Acts(c) ==
  \/ nreq'[c] # nreq[c]
  \/ pc'[c] # pc[c]
  \/ responses'[c] # responses[c]

\* C11: the transaction belongs to one connection: a step of one connection
\* (its MULTI, EXEC, DISCARD, parse error or anything else) leaves the flag
\* and the queue of every other connection as they were, and a command that
\* an idle connection sends while another connection is active is executed
\* against the store in that step, answered with its result and not queued.
C11_PerConnection ==
  [][\A c \in Conns :
       /\ Acts(c) => \A o \in Conns \ {c} : txn'[o] = txn[o]
       /\ (/\ Handles(c) /\ Parsed(c).ok
           /\ Parsed(c).cmd.name \notin {"Multi", "Exec", "Discard"}
           /\ ~txn[c].is_active
           /\ \E o \in Conns \ {c} : txn[o].is_active) =>
            /\ response'[c] = execute(Parsed(c).cmd, db).resp
            /\ response'[c] # SimpleString(s_QUEUED)
            /\ db' = execute(Parsed(c).cmd, db).db
            /\ txn'[c] = Transaction_new]_vars

\* C11 witness: while one connection is active with a command in its queue,
\* another, idle, has just had its SET executed against the store
C11_Witness ==
  \E c, o \in Conns :
    /\ txn[c].is_active
    /\ Len(txn[c].commands) >= 1
    /\ txn[o] = Transaction_new
    /\ request[o] = F_set
    /\ response[o] = SimpleString(s_OK)
    /\ lastOp = [conn |-> o, req |-> nreq[o]]
    /\ \E k \in Keys : db[k].kind = "Str"

\* C20: in every state an idle transaction has an empty queue.
C20_IdleQueueEmpty ==
  \A c \in Conns : ~txn[c].is_active => txn[c].commands = <<>>

\* C20 witness: a connection that had commands queued and discarded is idle
\* with an empty queue and still served
C20_Witness ==
  \E c \in Conns :
    /\ pc[c] = "run"
    /\ \E d \in dropped[c] : d.by = "discard"
    /\ ~txn[c].is_active
    /\ txn[c].commands = <<>>

(* ---------------- properties of the commands (SpecCmd) ----------------- *)

\* the spellings of PING in the repertoire
PingSpellings == {G_ping0[1].s, G_ping1[1].s, G_ping2[1].s}

\* C14: PING with no argument is answered PONG, with one argument that
\* argument, and with two or more arguments the format error.
C14_PingArity ==
  LET f == request[Client]
  IN  (f # <<>> /\ f[1].s \in PingSpellings) =>
        CASE Len(f) = 1 -> response[Client] = SimpleString(s_PONG)
          [] Len(f) = 2 -> response[Client] = BulkString(f[2].s)
          [] OTHER      -> response[Client] = SimpleError(s_invalid_format)

\* the verbs of the repertoire that are no command in any letter case
UnknownSpellings == {<<"F", "O", "O">>, <<"G", "e", "T", "s">>}

\* the verbs of the repertoire that are a command, with the command
KnownSpellings ==
  {<<<<"P", "I", "N", "G">>, "Ping">>, <<<<"p", "i", "n", "g">>, "Ping">>,
   <<<<"P", "i", "N", "g">>, "Ping">>, <<<<"G", "E", "T">>, "Get">>,
   <<<<"g", "E", "t">>, "Get">>, <<<<"S", "e", "T">>, "Set">>,
   <<<<"L", "P", "u", "s", "h">>, "LPush">>, <<<<"r", "P", "U", "S", "H">>, "RPush">>,
   <<<<"L", "R", "a", "n", "g", "e">>, "LRange">>, <<<<"e", "x", "e", "c">>, "Exec">>,
   <<<<"D", "i", "s", "c", "a", "r", "d">>, "Discard">>}

\* C15: a frame whose verb is no command in any letter case is answered
\* "Unknown command: " followed by the verb as it was sent, and the store
\* stays as it was; a verb that is a command in some letter case is parsed
\* as that command (or refused for its arguments), never as unknown.
C15_UnknownVerb ==
  [][Handles(Client) =>
       LET verb == request'[Client][1].s
       IN  /\ verb \in UnknownSpellings =>
                /\ response'[Client] = SimpleError(s_unknown_prefix \o verb)
                /\ db' = db
                /\ lastOp' = lastOp
           /\ \A k \in KnownSpellings :
                verb = k[1] =>
                  /\ Parsed(Client).ok => Parsed(Client).cmd.name = k[2]
                  /\ ~Parsed(Client).ok => Parsed(Client).err = InvalidFormat
                  /\ response'[Client] # SimpleError(s_unknown_prefix \o verb)
           /\ verb \in UnknownSpellings \cup {k[1] : k \in KnownSpellings}]_vars

\* C15 witness: with a list in the store, a verb in mixed case that is no
\* command was refused under the name the client sent
C15_Witness ==
  /\ request[Client] = G_unknown
  /\ response[Client] =
       SimpleError(s_unknown_prefix \o <<"G", "e", "T", "s">>)
  /\ \E k \in Keys : db[k].kind = "List"

\* C16: a list operation on a key holding a text, and a get on a key holding
\* a list, are answered with a SimpleError and leave the store as it was; a
\* get on a key holding a text returns that text, so the text written by a
\* set is still read after a push on the key failed.
C16_TypeEnforcement ==
  [][(Handles(Client) /\ Parsed(Client).ok) =>
       LET cmd == Parsed(Client).cmd
       IN  /\ (cmd.name \in {"LPush", "RPush", "LRange"} /\ db[cmd.key].kind = "Str") =>
                response'[Client].type = "SimpleError" /\ db' = db
           /\ (cmd.name = "Get" /\ db[cmd.key].kind = "List") =>
                response'[Client].type = "SimpleError" /\ db' = db
           /\ (cmd.name = "Get" /\ db[cmd.key].kind = "Str") =>
                response'[Client] = BulkString(db[cmd.key].v) /\ db' = db]_vars

\* C16 witness: a push of three values on a key holding the text "1" was
\* refused and the key still holds "1"
C16_Witness ==
  /\ request[Client] = G_lpush
  /\ response[Client].type = "SimpleError"
  /\ db[G_lpush[2].s] = Str(<<"1">>)

\* C17: lpush(k, [v1..vn]) on a key holding the list L (the empty list when
\* the key is absent) leaves the list vn, ..., v1 followed by L; a range 0..-1
\* returns the whole list, head first.
C17_LPushOrder ==
  [][(Handles(Client) /\ Parsed(Client).ok) =>
       LET cmd == Parsed(Client).cmd
       IN  /\ (cmd.name = "LPush" /\ db[cmd.key].kind # "Str") =>
                LET L == IF db[cmd.key].kind = "List" THEN db[cmd.key].items ELSE <<>>
                    n == Len(cmd.values)
                IN  /\ db'[cmd.key].kind = "List"
                    /\ Len(db'[cmd.key].items) = n + Len(L)
                    /\ \A i \in 1..n : db'[cmd.key].items[i] = cmd.values[n + 1 - i]
                    /\ \A j \in 1..Len(L) : db'[cmd.key].items[n + j] = L[j]
                    /\ \A k \in Keys \ {cmd.key} : db'[k] = db[k]
           /\ (cmd.name = "LRange" /\ cmd.start = 0 /\ cmd.stop = -1
                 /\ db[cmd.key].kind = "List") =>
                response'[Client] =
                  Array([i \in 1..Len(db[cmd.key].items) |->
                           BulkString(db[cmd.key].items[i])])]_vars

\* C17 witness: after one lpush of x, y, z on the empty store the range 0..-1
\* returned z, y, x
C17_Witness ==
  /\ nreq[Client] = 2
  /\ request[Client] = G_lrange
  /\ response[Client] =
       Array(<<BulkString(<<"z">>), BulkString(<<"y">>), BulkString(<<"x">>)>>)

(* ---------------- properties of the decoder (SpecDecode) --------------- *)

\* the header and the bulk strings a builder stands for
BuilderBytes(cb) ==
  IF cb = <<>> THEN <<>>
  ELSE EncodeHeader(cb[1].num_parts) \o EncodeBulks(Texts(cb[1].parts))

\* every request written has a verb: at least one element
AllNonEmpty == \A i \in 1..Len(written) : written[i] # <<>>

\* the bytes written are the bytes of the frames yielded, of the builder, of
\* the buffer and of the wire, in this order
BytesConserved ==
  EncodeStream(written) =
    EncodeStream([i \in 1..Len(yielded) |-> Texts(yielded[i])])
      \o BuilderBytes(cmd_builder) \o buf \o wire

\* C12: when the client writes one request (with a verb), every decode call
\* made before the last byte has been read asks for more bytes and yields
\* nothing; the calls made after the last byte was read yield the request as
\* written, once, and nothing else.  In particular so when the bytes arrive
\* one at a time.
C12_ByteAtATime ==
  (Len(written) = 1 /\ AllNonEmpty) =>
    /\ last # "err"
    /\ wire # <<>> => (yielded = <<>> /\ last \in {"idle", "none"})
    /\ yielded \in {<<>>, <<Frame(written[1])>>}
    /\ (wire = <<>> /\ (~readable \/ last = "frame")) =>
         (yielded = <<Frame(written[1])>> /\ buf = <<>> /\ cmd_builder = <<>>)

\* C12 witness: the bytes of a request of two strings were read one at a
\* time, with one decode call after each byte; the call after the last byte
\* yielded the request, and a further call asked for more bytes
C12_Witness ==
  /\ Len(written) = 1
  /\ Len(written[1]) = 2
  /\ wire = <<>>
  /\ calls = Len(EncodeFrame(written[1])) + 1
  /\ yielded = <<Frame(written[1])>>
  /\ last = "none"

\* C13: a decode call that asks for more bytes leaves the buffer and the
\* builder as they were.
C13_NothingConsumed ==
  [][(calls' = calls + 1 /\ last' = "none") =>
       (buf' = buf /\ cmd_builder' = cmd_builder)]_vars

\* C13 as the code has it: a decode call that asks for more bytes has
\* consumed, from the front of the buffer, exactly the array header (when it
\* started without a builder) and the complete bulk strings it added to the
\* builder; the bytes of an incomplete header or bulk string stay in the
\* buffer, and the builder keeps its arity and the values it had.
C13_OnlyWholeItemsConsumed ==
  [][(calls' = calls + 1 /\ last' = "none") =>
       LET k == Len(buf) - Len(buf')
           consumed == SubSeq(buf, 1, k)
       IN  /\ k >= 0
           /\ buf' = SubSeq(buf, k + 1, Len(buf))
           /\ IF cmd_builder' = <<>>
                THEN cmd_builder = <<>> /\ k = 0
                ELSE LET b == cmd_builder'[1]
                         had == IF cmd_builder = <<>> THEN 0
                                ELSE Len(cmd_builder[1].parts)
                     IN  /\ cmd_builder # <<>> =>
                              /\ b.num_parts = cmd_builder[1].num_parts
                              /\ had <= Len(b.parts)
                              /\ SubSeq(b.parts, 1, had) = cmd_builder[1].parts
                         /\ consumed =
                              (IF cmd_builder = <<>> THEN EncodeHeader(b.num_parts)
                               ELSE <<>>)
                                \o EncodeBulks(Texts(SubSeq(b.parts, had + 1,
                                                            Len(b.parts))))
           /\ (buf' # <<>> /\ cmd_builder' # <<>>) =>
                \/ parse_bulk_string_len(buf').kind = "none"
                \/ Len(buf') < parse_bulk_string_len(buf').len
                                 + parse_bulk_string_len(buf').bytes_read + 2]_vars

\* C13 witness: the first decode call consumed the header and one complete
\* bulk string, asked for more bytes and left the bytes of an incomplete
\* bulk string in the buffer
C13_Witness ==
  /\ calls = 1
  /\ last = "none"
  /\ cmd_builder # <<>>
  /\ Len(cmd_builder[1].parts) = 1
  /\ cmd_builder[1].num_parts = 2
  /\ buf # <<>>

\* C18: a frame that decode yields has as many strings as the header
\* consumed for it announced, the strings are the bulk strings consumed for
\* it in their order, and the decoder holds no builder afterwards.
C18_FrameHasArity ==
  last = "frame" =>
    LET cmd == yielded[Len(yielded)]
    IN  /\ cmd_builder = <<>>
        /\ AllBulk(cmd)
        /\ taken = EncodeHeader(Len(cmd)) \o EncodeBulks(Texts(cmd))

\* C18 witness: a second frame of two strings was yielded from bytes read in
\* several pieces, and the decoder has no builder
C18_Witness ==
  /\ last = "frame"
  /\ Len(yielded) = 2
  /\ Len(yielded[2]) = 2
  /\ yielded[2][1] # yielded[2][2]
  /\ calls >= 5
  /\ cmd_builder = <<>>

\* C19: however the bytes of a stream of requests (each with a verb) are
\* split into reads, decode never fails, the frames yielded are the first
\* requests written, in order, no byte is lost or read twice, and once all
\* bytes are read and decode asks for more, every request has been yielded
\* exactly once.
C19_ChunkingIndependent ==
  AllNonEmpty =>
    /\ last # "err"
    /\ Len(yielded) <= Len(written)
    /\ \A i \in 1..Len(yielded) : yielded[i] = Frame(written[i])
    /\ BytesConserved
    /\ (wire = <<>> /\ ~readable) =>
         (Len(yielded) = Len(written) /\ buf = <<>> /\ cmd_builder = <<>>)

\* C19 witness: one read brought the end of the first request and a part of
\* the second: the first has been yielded, a bulk string of the second is in
\* the builder and the bytes of an incomplete one wait in the buffer
C19_Witness ==
  /\ Len(written) = 2
  /\ yielded = <<Frame(written[1])>>
  /\ last = "none"
  /\ cmd_builder # <<>>
  /\ Len(cmd_builder[1].parts) = 1
  /\ buf # <<>>
  /\ wire # <<>>
  /\ calls = 3

(* ---------------- the queue, the frames and the end of the stream ------ *)

\* the commands the handler deals with itself
TxnCommands == {"Multi", "Exec", "Discard"}

\* C21: no queue holds a Multi, Exec or Discard command, so the replay of an
\* EXEC executes none of them; and an EXEC is never answered with the result
\* of executing the Exec command itself (null): its answer is the array of
\* the replay or the error "EXEC without MULTI".
C21_NoTxnCommandQueued ==
  \A c \in Conns :
    /\ \A i \in 1..Len(txn[c].commands) :
         txn[c].commands[i].cmd.name \notin TxnCommands
    /\ (pc[c] = "run" /\ request[c] # <<>> /\ ParsedFrames[request[c]].ok
          /\ ParsedFrames[request[c]].cmd.name = "Exec") =>
         \/ response[c] = SimpleError(s_exec_without_multi)
         \/ response[c].type = "Array"

\* C21 witness: the fourth request of a connection is the second entry of
\* its queue: of MULTI, a command, a third request and a command, the third
\* (a MULTI, refused) was not queued and left the queue as it was
C21_Witness ==
  \E c \in Conns :
    /\ txn[c].is_active
    /\ nreq[c] = 4
    /\ Len(txn[c].commands) = 2
    /\ txn[c].commands[1].req = 2
    /\ txn[c].commands[2].req = 4
    /\ response[c] = SimpleString(s_QUEUED)

\* C22: every frame the stream yields, which the handler passes to
\* Command::from_resp_command_frame, has at least one element, a bulk string,
\* so that its split into verb and arguments is defined; this whatever the
\* headers written, those announcing no element included.
C22_FrameNeverEmpty ==
  \A i \in 1..Len(yielded) :
    /\ Len(yielded[i]) >= 1
    /\ yielded[i][1].type = "BulkString"
    /\ from_resp_command_frame(yielded[i]).ok \in BOOLEAN

\* C22 witness: the header `*0` of the first request was consumed, the
\* builder waits for parts, nothing was yielded and more bytes are to come
C22_Witness ==
  /\ written[1] = <<>>
  /\ Len(written) = 2
  /\ cmd_builder # <<>>
  /\ cmd_builder[1].num_parts = 0
  /\ cmd_builder[1].parts = <<>>
  /\ last = "none"
  /\ yielded = <<>>
  /\ wire # <<>>

\* C23: once the peer has closed the stream the handler eventually returns;
\* the step in which the handler gets the end of the stream makes it return
\* and drops the commands still in the queue, and no command dropped so is
\* executed against the store, nor anything else for a handler that returned.
C23_StreamEndTerminates ==
  /\ eof ~> pc[Client] = "done"
  /\ [][/\ (ended[Client] # "eof" /\ ended'[Client] = "eof") =>
            /\ eof
            /\ pc'[Client] = "done"
            /\ txn'[Client] = Transaction_new
            /\ db' = db
            /\ \A i \in 1..Len(txn[Client].commands) :
                 [req |-> txn[Client].commands[i].req, by |-> "eof"]
                   \in dropped'[Client]
        /\ (lastOp' # lastOp /\ lastOp'.conn = Client) =>
            [req |-> lastOp'.req, by |-> "eof"] \notin dropped'[Client]
        /\ pc[Client] = "done" => (db' = db /\ lastOp' = lastOp)]_vars

\* C23 witness: the stream ended while a transaction with a queued command
\* was active: the handler has returned, the command is dropped and the
\* store is still empty
C23_Witness ==
  /\ eof
  /\ pc[Client] = "done"
  /\ ended[Client] = "eof"
  /\ \E d \in dropped[Client] : d.by = "eof"
  /\ \A k \in Keys : db[k] = Absent

====
